---- MODULE Spec2Model ----
(***************************************************************************)
(* State machine of the GameScene component (src/unnamed/part_000, the     *)
(* version with pickup item and loading overlay; GameScene.tsx is the same *)
(* component without them).                                                *)
(*                                                                         *)
(* Units.  Lengths are in thousandths of a world unit (moveSpeed 0.1 is    *)
(* 100, hitRange 3.0 is 3000), times in milliseconds.  The source computes *)
(* in IEEE doubles; the model computes the same expressions over the       *)
(* integers, so a.distanceTo(b) <= r is DistanceToSquared(a, b) <= r * r.  *)
(*                                                                         *)
(* Not modelled: the renderer, lights, ground, trees' geometry, the orb's  *)
(* rotation and emissive pulse, and the progress of clips in time          *)
(* (mixer.update): an animation action holds what the code last asked of   *)
(* it: whether it is to contribute (played or faded in, and not faded out  *)
(* or stopped since), its loop mode and its clamp flag.                    *)
(***************************************************************************)
EXTENDS Integers, Sequences, FiniteSets, TLC

VARIABLES
    keysRef,            \* keysRef.current: the set of codes mapped to true
    playerPosition,     \* playerRef.current.position
    isAttackingRef,     \* isAttackingRef.current
    currentActionRef,   \* currentActionRef.current
    actionsRef,         \* actionsRef.current: clip name -> animation action
    mixerRef,           \* mixerRef.current: NoMixer or the mixer's root
    zombieRef,          \* zombieRef.current: Null or the zombie's position
    zombieStateRef,     \* zombieStateRef.current: "alive" or "dead"
    zombieActionsRef,   \* zombieActionsRef.current
    zombieMixerRef,     \* zombieMixerRef.current is set
    glowingOrbRef,      \* glowingOrbRef.current: Null or the orb's position
    showPickupPrompt,   \* React state
    isLoading,          \* React state
    loadingProgress,    \* React state, in percent (rounded down)
    cameraPosition,     \* cameraRef.current.position
    timers,             \* pending setTimeout callbacks: [kind, left]
    pending,            \* asset loads whose callback has not run yet
    baseAdded,          \* playerGroup.children[0] is the base model
    loadedAnimations,   \* closure counter of loadAnimation
    animationClips,     \* closure array of loadAnimation (names of clips)
    loadedAssets,       \* closure counter of updateLoadingProgress
    loadedCount,        \* closure counter of loadZombie
    zombieAnimations,   \* closure array of loadZombie (names of clips)
    skyBackground,      \* scene.background: "none", "envMap" or "color"
    mounted,            \* the effect's cleanup has not run
    faults,             \* loads that ended in an error or without a clip
    stopwatch,          \* ms from the last honoured attack trigger to its
                        \* clear, and from the zombie's death to the orb; -1
                        \* before the first
    probe               \* the last call of a function under test and its result

vars == <<keysRef, playerPosition, isAttackingRef, currentActionRef, actionsRef,
          mixerRef, zombieRef, zombieStateRef, zombieActionsRef, zombieMixerRef,
          glowingOrbRef, showPickupPrompt, isLoading, loadingProgress,
          cameraPosition, timers, pending, baseAdded, loadedAnimations,
          animationClips, loadedAssets, loadedCount, zombieAnimations,
          skyBackground, mounted, faults, stopwatch, probe>>

playerVars == <<keysRef, playerPosition, isAttackingRef, currentActionRef,
                actionsRef, mixerRef, cameraPosition>>
zombieVars == <<zombieRef, zombieStateRef, zombieActionsRef, zombieMixerRef>>
loadVars   == <<pending, baseAdded, loadedAnimations, animationClips,
                loadedAssets, loadedCount, zombieAnimations, skyBackground,
                faults>>
uiVars     == <<showPickupPrompt, isLoading, loadingProgress>>

\* null, for a ref to an object and for a ref to a mixer (named by its root)
Null    == [null |-> TRUE]
NoMixer == "null"

----------------------------------------------------------------------------
(* Program constants *)

moveSpeed        == 100
hitRange         == 3000
interactionRange == 2500
hitDelay         == 300
clearDelay       == 1000
orbDelay         == 2000
loadingDelay     == 500
orbLift          == 1000
totalAnimations  == 6
totalAssets      == 9
totalZombieAnimations == 2
lerpAlpha        == 1
bobStep          == 2

zombieStart  == [x |-> -5000, y |-> 0, z |-> -5000]
playerStart  == [x |-> 0, y |-> 0, z |-> 0]
cameraStart  == [x |-> 0, y |-> 3000, z |-> 5000]
cameraOffset == [x |-> 0, y |-> 2000, z |-> 1500]

ForwardKeys == {"KeyW", "ArrowUp"}
BackKeys    == {"KeyS", "ArrowDown"}
LeftKeys    == {"KeyA", "ArrowLeft"}
RightKeys   == {"KeyD", "ArrowRight"}
KeyCodes    == ForwardKeys \cup BackKeys \cup LeftKeys \cup RightKeys \cup {"KeyE"}
Buttons     == {0, 2}

PlayerClips == {"idle", "attack", "walkForward", "walkBack", "strafeLeft",
                "strafeRight"}
ZombieClips == {"zombieIdle", "zombieDeath"}
OtherLoads  == {"oakTrees", "pineTrees", "skybox"}
AllLoads    == PlayerClips \cup ZombieClips \cup OtherLoads
Outcomes    == {"ok", "empty", "error"}

----------------------------------------------------------------------------
(* Bounds of the model *)

MaxHeld     == 2
ArenaRadius == 1
MaxFaults   == 1
MaxBob      == 1
ProbeSpan   == 5

\* The time quantum: the coarsest one in which every delay is a whole number.
RECURSIVE GCD(_, _)
GCD(a, b) == IF b = 0 THEN a ELSE GCD(b, a % b)
Quantum == GCD(GCD(hitDelay, clearDelay), GCD(orbDelay, loadingDelay))

\* The part of the ground the player is kept in: a square around a point at
\* distance exactly hitRange from the zombie, ArenaRadius steps each way.
arenaCentre == [x |-> -3200, y |-> 0, z |-> -2600]
Around(c) == {[x |-> c.x + i * moveSpeed, y |-> c.y, z |-> c.z + j * moveSpeed] :
                i \in -ArenaRadius..ArenaRadius, j \in -ArenaRadius..ArenaRadius}
origin == [x |-> 0, y |-> 0, z |-> 0]

\* A point within hitRange of the zombie and within interactionRange of the
\* orb whose neighbour one step to the right is out of the orb's range.
pickupCentre == [x |-> -2900, y |-> 0, z |-> -4100]
Arena == Around(arenaCentre) \cup Around(origin) \cup Around(pickupCentre)

----------------------------------------------------------------------------
(* THREE.Vector3 *)

Add(a, b) == [x |-> a.x + b.x, y |-> a.y + b.y, z |-> a.z + b.z]

\* Vector3.lerp going half of the way it is asked to go.
LerpHalfway(a, v, alpha) == [x |-> a.x + ((v.x - a.x) * alpha) \div 2,
                             y |-> a.y + ((v.y - a.y) * alpha) \div 2,
                             z |-> a.z + ((v.z - a.z) * alpha) \div 2]

\* Vector3.lerp(v, alpha): this += (v - this) * alpha, per component.
Lerp(a, v, alpha) == [x |-> a.x + (v.x - a.x) * alpha,
                      y |-> a.y + (v.y - a.y) * alpha,
                      z |-> a.z + (v.z - a.z) * alpha]

DistanceToSquared(a, b) ==
    (a.x - b.x) * (a.x - b.x) + (a.y - b.y) * (a.y - b.y)
        + (a.z - b.z) * (a.z - b.z)

\* a.distanceTo(b) <= range
WithinRange(a, b, range) == DistanceToSquared(a, b) <= range * range

----------------------------------------------------------------------------
(* THREE.AnimationAction: what the code last asked of it *)

NewAction == [active |-> FALSE, loop |-> "repeat", clamp |-> FALSE]

\* mixer.clipAction(clip) for every clip of the array
ClipActions(clips) == [c \in clips |-> NewAction]

\* mixer.stopAllAction()
StopAllAction(acts) == [c \in DOMAIN acts |-> [acts[c] EXCEPT !.active = FALSE]]

Held(keys, codes) == keys \cap codes # {}

----------------------------------------------------------------------------
(* Pure functions of the component *)

\* playAnimation() without the test that the name is not the current one.
playAnimationRestarting(acts, cur, animationName, loop) ==
    IF animationName \in DOMAIN acts
    THEN LET faded == IF cur \in DOMAIN acts
                      THEN [acts EXCEPT ![cur].active = FALSE]
                      ELSE acts
             begun == [faded EXCEPT ![animationName] =
                          [active |-> TRUE,
                           loop |-> IF loop THEN "repeat" ELSE "once",
                           clamp |-> @.clamp]]
         IN  [actions |-> begun,
              current |-> animationName,
              calls   |-> (IF cur \in DOMAIN acts
                           THEN << <<"fadeOut", cur>> >> ELSE << >>)
                          \o << <<"reset", animationName>>,
                                <<"fadeIn", animationName>>,
                                <<"setLoop", animationName>>,
                                <<"play", animationName>> >>]
    ELSE [actions |-> acts, current |-> cur, calls |-> << >>]

\* playAnimation() without the test that the name has an action.
playAnimationUnchecked(acts, cur, animationName, loop) ==
    IF cur # animationName
    THEN LET faded == IF cur \in DOMAIN acts
                      THEN [acts EXCEPT ![cur].active = FALSE]
                      ELSE acts
         IN  [actions |-> IF animationName \in DOMAIN acts
                          THEN [faded EXCEPT ![animationName] =
                                   [active |-> TRUE,
                                    loop |-> IF loop THEN "repeat" ELSE "once",
                                    clamp |-> @.clamp]]
                          ELSE faded,
              current |-> animationName,
              calls   |-> (IF cur \in DOMAIN acts
                           THEN << <<"fadeOut", cur>> >> ELSE << >>)
                          \o << <<"reset", animationName>>,
                                <<"fadeIn", animationName>>,
                                <<"setLoop", animationName>>,
                                <<"play", animationName>> >>]
    ELSE [actions |-> acts, current |-> cur, calls |-> << >>]

\* playAnimation(animationName, loop = true) on the table acts with current
\* name cur: the new table, the new current name and the calls made on the
\* animation actions.
playAnimation(acts, cur, animationName, loop) ==
    IF animationName \in DOMAIN acts /\ cur # animationName
    THEN LET faded == IF cur \in DOMAIN acts
                      THEN [acts EXCEPT ![cur].active = FALSE]
                      ELSE acts
             begun == [faded EXCEPT ![animationName] =
                          [active |-> TRUE,
                           loop |-> IF loop THEN "repeat" ELSE "once",
                           clamp |-> @.clamp]]
         IN  [actions |-> begun,
              current |-> animationName,
              calls   |-> (IF cur \in DOMAIN acts
                           THEN << <<"fadeOut", cur>> >> ELSE << >>)
                          \o << <<"reset", animationName>>,
                                <<"fadeIn", animationName>>,
                                <<"setLoop", animationName>>,
                                <<"play", animationName>> >>]
    ELSE [actions |-> acts, current |-> cur, calls |-> << >>]

\* checkHit() with the range's end left out.
checkHitExclusive(player, zombie, state) ==
    IF zombie = Null \/ state = "dead"
    THEN FALSE
    ELSE DistanceToSquared(player, zombie) < hitRange * hitRange

\* checkHit() on the player's position, zombieRef.current (Null or the
\* zombie's position) and zombieStateRef.current.  playerRef.current is set
\* by the construction and never cleared.
checkHit(player, zombie, state) ==
    IF zombie = Null \/ state = "dead"
    THEN FALSE
    ELSE WithinRange(player, zombie, hitRange)

\* checkOrbProximity() with the range of the hit check.
checkOrbProximityHitRange(player, orb) ==
    IF orb = Null
    THEN FALSE
    ELSE WithinRange(player, orb, hitRange)

\* checkOrbProximity() on the player's position and glowingOrbRef.current.
checkOrbProximity(player, orb) ==
    IF orb = Null
    THEN FALSE
    ELSE WithinRange(player, orb, interactionRange)

\* The attack-clear callback's choice with the last matched direction winning.
resumeAnimationLastMatched(keys) ==
    IF Held(keys, RightKeys) THEN "strafeRight"
    ELSE IF Held(keys, LeftKeys) THEN "strafeLeft"
    ELSE IF Held(keys, BackKeys) THEN "walkBack"
    ELSE IF Held(keys, ForwardKeys) THEN "walkForward"
    ELSE "idle"

\* The animation the attack-clear callback returns to, from the keys held.
resumeAnimation(keys) ==
    IF Held(keys, ForwardKeys \cup BackKeys \cup LeftKeys \cup RightKeys)
    THEN IF Held(keys, ForwardKeys) THEN "walkForward"
         ELSE IF Held(keys, BackKeys) THEN "walkBack"
         ELSE IF Held(keys, LeftKeys) THEN "strafeLeft"
         ELSE IF Held(keys, RightKeys) THEN "strafeRight"
         ELSE "idle"
    ELSE "idle"

\* The movement block as an else-if chain: one direction moves the player.
movementExclusive(keys, position) ==
    LET f == Held(keys, ForwardKeys)
        b == Held(keys, BackKeys)
        l == Held(keys, LeftKeys)
        r == Held(keys, RightKeys)
    IN  [position |-> IF f THEN [position EXCEPT !.z = @ - moveSpeed]
                      ELSE IF b THEN [position EXCEPT !.z = @ + moveSpeed]
                      ELSE IF l THEN [position EXCEPT !.x = @ - moveSpeed]
                      ELSE IF r THEN [position EXCEPT !.x = @ + moveSpeed]
                      ELSE position,
         moved |-> f \/ b \/ l \/ r,
         currentMovement |-> IF r THEN "strafeRight"
                             ELSE IF l THEN "strafeLeft"
                             ELSE IF b THEN "walkBack"
                             ELSE IF f THEN "walkForward"
                             ELSE ""]

\* The movement block of animate(): four independent ifs, each moving the
\* player and overwriting currentMovement.
movement(keys, position) ==
    LET f == Held(keys, ForwardKeys)
        b == Held(keys, BackKeys)
        l == Held(keys, LeftKeys)
        r == Held(keys, RightKeys)
        dz == (IF b THEN moveSpeed ELSE 0) - (IF f THEN moveSpeed ELSE 0)
        dx == (IF r THEN moveSpeed ELSE 0) - (IF l THEN moveSpeed ELSE 0)
    IN  [position |-> [position EXCEPT !.x = @ + dx, !.z = @ + dz],
         moved |-> f \/ b \/ l \/ r,
         currentMovement |-> IF r THEN "strafeRight"
                             ELSE IF l THEN "strafeLeft"
                             ELSE IF b THEN "walkBack"
                             ELSE IF f THEN "walkForward"
                             ELSE ""]

\* The movement block without its guard.
frameStepUnguarded(attacking, keys, position) == movement(keys, position)

\* The movement block under its guard: nothing moves while attacking.
frameStep(attacking, keys, position) ==
    IF attacking
    THEN [position |-> position, moved |-> FALSE, currentMovement |-> ""]
    ELSE movement(keys, position)

\* The animation-state block of animate(): the name it passes to
\* playAnimation, or "" when it makes no call.
requestedAnimation(attacking, moved, currentMovement, currentAction) ==
    IF attacking THEN ""
    ELSE IF moved /\ currentAction # "attack"
         THEN IF currentAction # currentMovement THEN currentMovement ELSE ""
         ELSE IF ~moved /\ currentAction # "attack"
              THEN IF currentAction # "idle" THEN "idle" ELSE ""
              ELSE ""

\* killZombie() on the zombie's animation actions.
deathActions(acts) ==
    LET faded == IF "zombieIdle" \in DOMAIN acts
                 THEN [acts EXCEPT !["zombieIdle"].active = FALSE]
                 ELSE acts
    IN  IF "zombieDeath" \in DOMAIN acts
        THEN [faded EXCEPT !["zombieDeath"] =
                 [active |-> TRUE, loop |-> "once", clamp |-> TRUE]]
        ELSE faded

\* createGlowingOrb(position) without the lift.
orbPositionOnGround(position) == position

\* createGlowingOrb(position): the orb's position.
orbPosition(position) == [position EXCEPT !.y = @ + orbLift]

\* setupAnimations / setupZombieAnimations: the table of actions, the one of
\* the starting clip playing.
setupActions(clips, first) ==
    LET acts == ClipActions(clips)
    IN  IF first \in clips
        THEN [acts EXCEPT ![first].active = TRUE]
        ELSE acts

\* (loadedAssets / totalAssets) * 100, rounded down to a whole percent.
progressOf(n) == (n * 100) \div totalAssets

----------------------------------------------------------------------------
(* Construction: the body of the effect, up to the first callback *)

InitAt(position) ==
    /\ keysRef = {}
    /\ playerPosition = position
    /\ isAttackingRef = FALSE
    /\ currentActionRef = "idle"
    /\ actionsRef = ClipActions({})
    /\ mixerRef = NoMixer
    /\ zombieRef = Null
    /\ zombieStateRef = "alive"
    /\ zombieActionsRef = ClipActions({})
    /\ zombieMixerRef = FALSE
    /\ glowingOrbRef = Null
    /\ showPickupPrompt = FALSE
    /\ isLoading = TRUE
    /\ loadingProgress = 0
    /\ cameraPosition = cameraStart
    /\ timers = {}
    /\ pending = AllLoads
    /\ baseAdded = FALSE
    /\ loadedAnimations = 0
    /\ animationClips = {}
    /\ loadedAssets = 0
    /\ loadedCount = 0
    /\ zombieAnimations = {}
    /\ skyBackground = "none"
    /\ mounted = TRUE
    /\ faults = 0
    /\ stopwatch = [attack |-> -1, death |-> -1]
    /\ probe = Null

Init == InitAt(playerStart)

----------------------------------------------------------------------------
(* Timers *)

Timer(kind, delay) == [kind |-> kind, left |-> delay]

Due(kind) == Timer(kind, 0) \in timers

\* Time passes by one quantum; a callback that is due runs first.
Tick ==
    /\ timers # {}
    /\ \A t \in timers : t.left >= Quantum
    /\ timers' = {[t EXCEPT !.left = @ - Quantum] : t \in timers}
    /\ stopwatch' = [attack |-> IF isAttackingRef
                                THEN stopwatch.attack + Quantum
                                ELSE stopwatch.attack,
                     death  |-> IF \E t \in timers : t.kind = "orb"
                                THEN stopwatch.death + Quantum
                                ELSE stopwatch.death]
    /\ UNCHANGED <<playerVars, zombieVars, glowingOrbRef, uiVars, loadVars,
                   mounted, probe>>

----------------------------------------------------------------------------
(* Input handlers *)

\* pickupOrb()
pickupOrb ==
    IF glowingOrbRef # Null
    THEN /\ glowingOrbRef' = Null
         /\ showPickupPrompt' = IF mounted THEN FALSE ELSE showPickupPrompt
    ELSE UNCHANGED <<glowingOrbRef, showPickupPrompt>>

\* handleKeyDown with the interact key refused during an attack.
handleKeyDownNotAttacking(code) ==
    /\ mounted
    /\ Cardinality(keysRef \cup {code}) <= MaxHeld
    /\ keysRef' = keysRef \cup {code}
    /\ IF code = "KeyE" /\ ~isAttackingRef
          /\ checkOrbProximity(playerPosition, glowingOrbRef)
       THEN pickupOrb
       ELSE UNCHANGED <<glowingOrbRef, showPickupPrompt>>
    /\ UNCHANGED <<playerPosition, isAttackingRef, currentActionRef, actionsRef,
                   mixerRef, cameraPosition, zombieVars, isLoading,
                   loadingProgress, timers, loadVars, mounted, stopwatch, probe>>

\* handleKeyDown without the proximity test.
handleKeyDownAnywhere(code) ==
    /\ mounted
    /\ Cardinality(keysRef \cup {code}) <= MaxHeld
    /\ keysRef' = keysRef \cup {code}
    /\ IF code = "KeyE"
       THEN pickupOrb
       ELSE UNCHANGED <<glowingOrbRef, showPickupPrompt>>
    /\ UNCHANGED <<playerPosition, isAttackingRef, currentActionRef, actionsRef,
                   mixerRef, cameraPosition, zombieVars, isLoading,
                   loadingProgress, timers, loadVars, mounted, stopwatch, probe>>

handleKeyDown(code) ==
    /\ mounted
    /\ Cardinality(keysRef \cup {code}) <= MaxHeld
    /\ keysRef' = keysRef \cup {code}
    /\ IF code = "KeyE" /\ checkOrbProximity(playerPosition, glowingOrbRef)
       THEN pickupOrb
       ELSE UNCHANGED <<glowingOrbRef, showPickupPrompt>>
    /\ UNCHANGED <<playerPosition, isAttackingRef, currentActionRef, actionsRef,
                   mixerRef, cameraPosition, zombieVars, isLoading,
                   loadingProgress, timers, loadVars, mounted, stopwatch, probe>>

handleKeyUp(code) ==
    /\ mounted
    /\ keysRef' = keysRef \ {code}
    /\ UNCHANGED <<playerPosition, isAttackingRef, currentActionRef, actionsRef,
                   mixerRef, cameraPosition, zombieVars, glowingOrbRef, uiVars,
                   timers, loadVars, mounted, stopwatch, probe>>

\* The test of handleMouseClick without the attacking flag.
honouredAlways(button, attacking) == button = 0

\* The test of handleMouseClick: the left button, and not already attacking.
honoured(button, attacking) == button = 0 /\ ~attacking

\* handleMouseClick with the attack played in the default loop mode.
handleMouseClickLooping(button) ==
    /\ mounted
    /\ IF honoured(button, isAttackingRef)
       THEN LET played == playAnimation(actionsRef, currentActionRef, "attack",
                                        TRUE)
            IN  /\ isAttackingRef' = TRUE
                /\ actionsRef' = played.actions
                /\ currentActionRef' = played.current
                /\ timers' = timers \cup {Timer("hit", hitDelay),
                                          Timer("clear", clearDelay)}
                /\ stopwatch' = [stopwatch EXCEPT !.attack = 0]
       ELSE UNCHANGED <<isAttackingRef, actionsRef, currentActionRef, timers,
                        stopwatch>>
    /\ UNCHANGED <<keysRef, playerPosition, mixerRef, cameraPosition, zombieVars,
                   glowingOrbRef, uiVars, loadVars, mounted, probe>>

handleMouseClick(button) ==
    /\ mounted
    /\ IF honoured(button, isAttackingRef)
       THEN LET played == playAnimation(actionsRef, currentActionRef, "attack",
                                        FALSE)
            IN  /\ isAttackingRef' = TRUE
                /\ actionsRef' = played.actions
                /\ currentActionRef' = played.current
                /\ timers' = timers \cup {Timer("hit", hitDelay),
                                          Timer("clear", clearDelay)}
                /\ stopwatch' = [stopwatch EXCEPT !.attack = 0]
       ELSE UNCHANGED <<isAttackingRef, actionsRef, currentActionRef, timers,
                        stopwatch>>
    /\ UNCHANGED <<keysRef, playerPosition, mixerRef, cameraPosition, zombieVars,
                   glowingOrbRef, uiVars, loadVars, mounted, probe>>

----------------------------------------------------------------------------
(* Timer callbacks *)

\* killZombie(), called from a timer callback that leaves the timers rest.
killZombie(rest) ==
    IF zombieStateRef = "dead"
    THEN /\ timers' = rest
         /\ UNCHANGED <<zombieStateRef, zombieActionsRef, stopwatch>>
    ELSE /\ zombieStateRef' = "dead"
         /\ zombieActionsRef' = deathActions(zombieActionsRef)
         /\ timers' = IF zombieRef # Null
                      THEN rest \cup {Timer("orb", orbDelay)}
                      ELSE rest
         /\ stopwatch' = [stopwatch EXCEPT !.death = 0]

\* The 300 ms callback without the hit check.
hitTimerUnchecked ==
    /\ Due("hit")
    /\ killZombie(timers \ {Timer("hit", 0)})
    /\ UNCHANGED <<playerVars, zombieRef, zombieMixerRef, glowingOrbRef, uiVars,
                   loadVars, mounted, probe>>

\* The callback of the 300 ms timer of handleMouseClick.
hitTimer ==
    /\ Due("hit")
    /\ IF checkHit(playerPosition, zombieRef, zombieStateRef)
       THEN killZombie(timers \ {Timer("hit", 0)})
       ELSE /\ timers' = timers \ {Timer("hit", 0)}
            /\ UNCHANGED <<zombieStateRef, zombieActionsRef, stopwatch>>
    /\ UNCHANGED <<playerVars, zombieRef, zombieMixerRef, glowingOrbRef, uiVars,
                   loadVars, mounted, probe>>

\* The 1000 ms callback without the clearing of the flag.
clearTimerKeepingFlag ==
    /\ Due("clear")
    /\ LET played == playAnimation(actionsRef, currentActionRef,
                                   resumeAnimation(keysRef), TRUE)
       IN  /\ actionsRef' = played.actions
           /\ currentActionRef' = played.current
    /\ timers' = timers \ {Timer("clear", 0)}
    /\ UNCHANGED <<keysRef, playerPosition, isAttackingRef, mixerRef,
                   cameraPosition, zombieVars, glowingOrbRef, uiVars, loadVars,
                   mounted, stopwatch, probe>>

\* The callback of the 1000 ms timer of handleMouseClick.
clearTimer ==
    /\ Due("clear")
    /\ LET played == playAnimation(actionsRef, currentActionRef,
                                   resumeAnimation(keysRef), TRUE)
       IN  /\ isAttackingRef' = FALSE
           /\ actionsRef' = played.actions
           /\ currentActionRef' = played.current
    /\ timers' = timers \ {Timer("clear", 0)}
    /\ UNCHANGED <<keysRef, playerPosition, mixerRef, cameraPosition, zombieVars,
                   glowingOrbRef, uiVars, loadVars, mounted, stopwatch, probe>>

\* The 2000 ms callback as the callback of an interval.
orbTimerRepeating ==
    /\ Due("orb")
    /\ glowingOrbRef' = orbPosition(zombieRef)
    /\ timers' = (timers \ {Timer("orb", 0)}) \cup {Timer("orb", orbDelay)}
    /\ UNCHANGED <<playerVars, zombieVars, uiVars, loadVars, mounted, stopwatch,
                   probe>>

\* The callback of the 2000 ms timer of killZombie: createGlowingOrb.
orbTimer ==
    /\ Due("orb")
    /\ glowingOrbRef' = orbPosition(zombieRef)
    /\ timers' = timers \ {Timer("orb", 0)}
    /\ UNCHANGED <<playerVars, zombieVars, uiVars, loadVars, mounted, stopwatch,
                   probe>>

\* The callback of the 500 ms timer of updateLoadingProgress.
loadingTimer ==
    /\ Due("loading")
    /\ isLoading' = IF mounted THEN FALSE ELSE isLoading
    /\ timers' = timers \ {Timer("loading", 0)}
    /\ UNCHANGED <<playerVars, zombieVars, glowingOrbRef, showPickupPrompt,
                   loadingProgress, loadVars, mounted, stopwatch, probe>>

----------------------------------------------------------------------------
(* The frame callback *)

\* Math.sin(time) * 0.002, the orb's rise in one frame, to the nearest of
\* -bobStep, 0, bobStep; the orb is kept within MaxBob steps of its height.
BobSteps == {-bobStep, 0, bobStep}

BobBound(orb) ==
    IF orb = Null THEN TRUE
    ELSE (orb.y - orbLift) \in (-MaxBob * bobStep)..(MaxBob * bobStep)

animate ==
    \E bob \in BobSteps :
        LET orb    == IF glowingOrbRef = Null THEN Null
                      ELSE [glowingOrbRef EXCEPT !.y = @ + bob]
            step   == frameStep(isAttackingRef, keysRef, playerPosition)
            name   == requestedAnimation(isAttackingRef, step.moved,
                                         step.currentMovement, currentActionRef)
            played == IF name = ""
                      THEN [actions |-> actionsRef, current |-> currentActionRef]
                      ELSE playAnimation(actionsRef, currentActionRef, name, TRUE)
        IN  /\ IF glowingOrbRef = Null THEN bob = 0 ELSE TRUE
            /\ BobBound(orb)
            /\ step.position \in Arena
            /\ glowingOrbRef' = orb
            /\ playerPosition' = step.position
            /\ actionsRef' = played.actions
            /\ currentActionRef' = played.current
            /\ cameraPosition' = Lerp(cameraPosition,
                                      Add(step.position, cameraOffset), lerpAlpha)
            /\ showPickupPrompt' = IF mounted
                                   THEN checkOrbProximity(step.position, orb)
                                   ELSE showPickupPrompt
            /\ UNCHANGED <<keysRef, isAttackingRef, mixerRef, zombieVars,
                           isLoading, loadingProgress, timers, loadVars, mounted,
                           stopwatch, probe>>

----------------------------------------------------------------------------
(* Asset loads *)

Faulty(outcome) == outcome # "ok"

\* A load's callback runs once; at most MaxFaults loads go wrong.
Completes(name, outcome) ==
    /\ name \in pending
    /\ IF Faulty(outcome) THEN faults < MaxFaults ELSE TRUE
    /\ pending' = pending \ {name}
    /\ faults' = IF Faulty(outcome) THEN faults + 1 ELSE faults

\* updateLoadingProgress dropping the timers pending when it schedules its
\* own.
updateLoadingProgressAlone ==
    /\ loadedAssets' = loadedAssets + 1
    /\ loadingProgress' = IF mounted THEN progressOf(loadedAssets + 1)
                          ELSE loadingProgress
    /\ timers' = IF loadedAssets + 1 >= totalAssets
                 THEN {Timer("loading", loadingDelay)}
                 ELSE timers

updateLoadingProgress ==
    /\ loadedAssets' = loadedAssets + 1
    /\ loadingProgress' = IF mounted THEN progressOf(loadedAssets + 1)
                          ELSE loadingProgress
    /\ timers' = IF loadedAssets + 1 >= totalAssets
                 THEN timers \cup {Timer("loading", loadingDelay)}
                 ELSE timers

\* setupAnimations(fbx, animations)
setupAnimations(root, clips) ==
    /\ mixerRef' = root
    /\ actionsRef' = setupActions(clips, "idle")
    /\ currentActionRef' = IF "idle" \in clips THEN "idle" ELSE currentActionRef

\* The gate of the setup, one load early.
allLoadedEarly(count) == count = totalAnimations - 1

\* The gate of the setup: loadedAnimations === totalAnimations.
allLoaded(count) == count = totalAnimations

\* The callbacks of fbxLoader.load in loadAnimation(filePath, animationName,
\* isBaseModel); the base model is the one loaded as "idle".
loadAnimation(animationName, outcome) ==
    /\ animationName \in PlayerClips
    /\ Completes(animationName, outcome)
    /\ IF outcome = "error"
       THEN UNCHANGED <<baseAdded, animationClips, loadedAnimations, loadedAssets,
                        loadingProgress, timers, mixerRef, actionsRef,
                        currentActionRef>>
       ELSE LET isBaseModel == animationName = "idle"
                clips == IF outcome = "ok"
                         THEN animationClips \cup {animationName}
                         ELSE animationClips
                root  == IF isBaseModel \/ baseAdded THEN "base" ELSE "undefined"
            IN  /\ baseAdded' = IF isBaseModel THEN TRUE ELSE baseAdded
                /\ animationClips' = clips
                /\ loadedAnimations' = loadedAnimations + 1
                /\ updateLoadingProgress
                /\ IF allLoaded(loadedAnimations + 1)
                   THEN setupAnimations(root, clips)
                   ELSE UNCHANGED <<mixerRef, actionsRef, currentActionRef>>
    /\ UNCHANGED <<keysRef, playerPosition, isAttackingRef, cameraPosition,
                   zombieVars, glowingOrbRef, showPickupPrompt, isLoading,
                   loadedCount, zombieAnimations, skyBackground, mounted, stopwatch, probe>>

\* setupZombieAnimations(), with the values the calling callback has just
\* given loadedCount, zombieModel and zombieAnimations.
setupZombieAnimations(count, model, clips) ==
    IF count = totalZombieAnimations /\ model # Null
    THEN /\ zombieMixerRef' = TRUE
         /\ zombieActionsRef' = setupActions(clips, "zombieIdle")
    ELSE UNCHANGED <<zombieMixerRef, zombieActionsRef>>

\* The callbacks of the load of ZombieIdle.fbx.
loadZombieIdle(outcome) ==
    /\ Completes("zombieIdle", outcome)
    /\ IF outcome = "error"
       THEN UNCHANGED <<zombieRef, zombieAnimations, loadedCount, zombieMixerRef,
                        zombieActionsRef, loadedAssets, loadingProgress, timers>>
       ELSE LET clips == IF outcome = "ok"
                         THEN zombieAnimations \cup {"zombieIdle"}
                         ELSE zombieAnimations
            IN  /\ zombieAnimations' = clips
                /\ zombieRef' = zombieStart
                /\ loadedCount' = loadedCount + 1
                /\ setupZombieAnimations(loadedCount + 1, zombieStart, clips)
                /\ updateLoadingProgress
    /\ UNCHANGED <<playerVars, zombieStateRef, glowingOrbRef, showPickupPrompt,
                   isLoading, baseAdded, loadedAnimations, animationClips,
                   skyBackground, mounted, stopwatch, probe>>

\* The callbacks of the load of ZombieDeath.fbx with a setup that puts the
\* zombie's state back to "alive".
loadZombieDeathReviving(outcome) ==
    /\ Completes("zombieDeath", outcome)
    /\ IF outcome = "error"
       THEN UNCHANGED <<zombieAnimations, loadedCount, zombieMixerRef,
                        zombieActionsRef, zombieStateRef>>
       ELSE LET clips == IF outcome = "ok"
                         THEN zombieAnimations \cup {"zombieDeath"}
                         ELSE zombieAnimations
            IN  /\ zombieAnimations' = clips
                /\ loadedCount' = loadedCount + 1
                /\ setupZombieAnimations(loadedCount + 1, zombieRef, clips)
                /\ zombieStateRef' = IF zombieRef # Null THEN "alive"
                                     ELSE zombieStateRef
    /\ UNCHANGED <<playerVars, zombieRef, glowingOrbRef, uiVars,
                   timers, baseAdded, loadedAnimations, animationClips,
                   loadedAssets, skyBackground, mounted, stopwatch, probe>>

\* The callbacks of the load of ZombieDeath.fbx.
loadZombieDeath(outcome) ==
    /\ Completes("zombieDeath", outcome)
    /\ IF outcome = "error"
       THEN UNCHANGED <<zombieAnimations, loadedCount, zombieMixerRef,
                        zombieActionsRef>>
       ELSE LET clips == IF outcome = "ok"
                         THEN zombieAnimations \cup {"zombieDeath"}
                         ELSE zombieAnimations
            IN  /\ zombieAnimations' = clips
                /\ loadedCount' = loadedCount + 1
                /\ setupZombieAnimations(loadedCount + 1, zombieRef, clips)
    /\ UNCHANGED <<playerVars, zombieRef, zombieStateRef, glowingOrbRef, uiVars,
                   timers, baseAdded, loadedAnimations, animationClips,
                   loadedAssets, skyBackground, mounted, stopwatch, probe>>

\* The callbacks of the load of oaktrees.fbx.
loadOakTrees(outcome) ==
    /\ outcome # "empty"
    /\ Completes("oakTrees", outcome)
    /\ IF outcome = "ok"
       THEN updateLoadingProgress
       ELSE UNCHANGED <<loadedAssets, loadingProgress, timers>>
    /\ UNCHANGED <<playerVars, zombieVars, glowingOrbRef, showPickupPrompt,
                   isLoading, baseAdded, loadedAnimations, animationClips,
                   loadedCount, zombieAnimations, skyBackground, mounted, stopwatch, probe>>

\* The callbacks of the load of Tree.fbx counting towards the progress.
loadPineTreesCounted(outcome) ==
    /\ outcome # "empty"
    /\ Completes("pineTrees", outcome)
    /\ IF outcome = "ok"
       THEN updateLoadingProgress
       ELSE UNCHANGED <<loadedAssets, loadingProgress, timers>>
    /\ UNCHANGED <<playerVars, zombieVars, glowingOrbRef, showPickupPrompt,
                   isLoading, baseAdded, loadedAnimations, animationClips,
                   loadedCount, zombieAnimations, skyBackground, mounted, stopwatch, probe>>

\* The callbacks of the load of Tree.fbx (pine trees): no counter is touched.
loadPineTrees(outcome) ==
    /\ outcome # "empty"
    /\ Completes("pineTrees", outcome)
    /\ UNCHANGED <<playerVars, zombieVars, glowingOrbRef, uiVars, timers,
                   baseAdded, loadedAnimations, animationClips, loadedAssets,
                   loadedCount, zombieAnimations, skyBackground, mounted, stopwatch, probe>>

\* The callbacks of exrLoader.load of the skybox.
loadSkybox(outcome) ==
    /\ outcome # "empty"
    /\ Completes("skybox", outcome)
    /\ skyBackground' = IF outcome = "ok" THEN "envMap" ELSE "color"
    /\ updateLoadingProgress
    /\ UNCHANGED <<playerVars, zombieVars, glowingOrbRef, showPickupPrompt,
                   isLoading, baseAdded, loadedAnimations, animationClips,
                   loadedCount, zombieAnimations, mounted, stopwatch, probe>>

----------------------------------------------------------------------------
(* The effect's cleanup *)

cleanup ==
    /\ mounted
    /\ mounted' = FALSE
    /\ actionsRef' = IF mixerRef # NoMixer THEN StopAllAction(actionsRef)
                     ELSE actionsRef
    /\ zombieActionsRef' = IF zombieMixerRef THEN StopAllAction(zombieActionsRef)
                           ELSE zombieActionsRef
    /\ UNCHANGED <<keysRef, playerPosition, isAttackingRef, currentActionRef,
                   mixerRef, cameraPosition, zombieRef, zombieStateRef,
                   zombieMixerRef, glowingOrbRef, uiVars, timers, loadVars, stopwatch,
                   probe>>

----------------------------------------------------------------------------
(* Calls of the pure functions, their arguments drawn *)

\* Points of the ground ProbeSpan steps of 0.6 along each axis: (1.8, 2.4)
\* and (3.0, 0) are at distance exactly 3.0 from the origin.
ProbePoints == {[x |-> 600 * i, y |-> 0, z |-> 600 * j] :
                  i \in 0..ProbeSpan, j \in 0..ProbeSpan}

\* A call of checkHit(): the refs it reads and what it returns.
callCheckHit(player, zombie, state) ==
    /\ probe' = [fn |-> "checkHit", player |-> player, zombie |-> zombie,
                 state |-> state, result |-> checkHit(player, zombie, state)]
    /\ UNCHANGED <<playerVars, zombieVars, glowingOrbRef, uiVars, timers,
                   loadVars, mounted, stopwatch>>

\* A call of playAnimation(animationName, loop) by any of its callers: its
\* arguments, the current name it found and the calls it made.
callPlayAnimation(animationName, loop) ==
    LET played == playAnimation(actionsRef, currentActionRef, animationName, loop)
    IN  /\ actionsRef' = played.actions
        /\ currentActionRef' = played.current
        /\ probe' = [fn |-> "playAnimation", animationName |-> animationName,
                     loop |-> loop, found |-> currentActionRef,
                     calls |-> played.calls]
        /\ UNCHANGED <<keysRef, playerPosition, isAttackingRef, mixerRef,
                       cameraPosition, zombieVars, glowingOrbRef, uiVars, timers,
                       loadVars, mounted, stopwatch>>

----------------------------------------------------------------------------
(* GameScene.tsx: the component without the pickup and the loading overlay. *)
(* It has the refs, closures and timers of part_000 except the prompt, the  *)
(* loading state, the progress, the counter loadedAssets and the loading    *)
(* timer; its handlers are given as steps on what the two have in common.   *)

\* The pending timers of GameScene.tsx, which schedules no loading timer.
basic_timers == {t \in timers : t.kind # "loading"}

basic_loads == <<pending, baseAdded, loadedAnimations, animationClips,
                 loadedCount, zombieAnimations, skyBackground>>

basic_vars == <<playerVars, zombieVars, glowingOrbRef, basic_timers,
                basic_loads, mounted>>

basic_handleKeyDown(code) ==
    /\ mounted
    /\ keysRef' = keysRef \cup {code}
    /\ UNCHANGED <<playerPosition, isAttackingRef, currentActionRef, actionsRef,
                   mixerRef, cameraPosition, zombieVars, glowingOrbRef,
                   basic_timers, basic_loads, mounted>>

basic_handleKeyUp(code) ==
    /\ mounted
    /\ keysRef' = keysRef \ {code}
    /\ UNCHANGED <<playerPosition, isAttackingRef, currentActionRef, actionsRef,
                   mixerRef, cameraPosition, zombieVars, glowingOrbRef,
                   basic_timers, basic_loads, mounted>>

basic_handleMouseClick(button) ==
    /\ mounted
    /\ IF honoured(button, isAttackingRef)
       THEN LET played == playAnimation(actionsRef, currentActionRef, "attack",
                                        FALSE)
            IN  /\ isAttackingRef' = TRUE
                /\ actionsRef' = played.actions
                /\ currentActionRef' = played.current
                /\ basic_timers' = basic_timers \cup {Timer("hit", hitDelay),
                                                      Timer("clear", clearDelay)}
       ELSE UNCHANGED <<isAttackingRef, actionsRef, currentActionRef,
                        basic_timers>>
    /\ UNCHANGED <<keysRef, playerPosition, mixerRef, cameraPosition, zombieVars,
                   glowingOrbRef, basic_loads, mounted>>

basic_killZombie(rest) ==
    IF zombieStateRef = "dead"
    THEN /\ basic_timers' = rest
         /\ UNCHANGED <<zombieStateRef, zombieActionsRef>>
    ELSE /\ zombieStateRef' = "dead"
         /\ zombieActionsRef' = deathActions(zombieActionsRef)
         /\ basic_timers' = IF zombieRef # Null
                            THEN rest \cup {Timer("orb", orbDelay)}
                            ELSE rest

basic_hitTimer ==
    /\ Timer("hit", 0) \in basic_timers
    /\ IF checkHit(playerPosition, zombieRef, zombieStateRef)
       THEN basic_killZombie(basic_timers \ {Timer("hit", 0)})
       ELSE /\ basic_timers' = basic_timers \ {Timer("hit", 0)}
            /\ UNCHANGED <<zombieStateRef, zombieActionsRef>>
    /\ UNCHANGED <<playerVars, zombieRef, zombieMixerRef, glowingOrbRef,
                   basic_loads, mounted>>

basic_clearTimer ==
    /\ Timer("clear", 0) \in basic_timers
    /\ LET played == playAnimation(actionsRef, currentActionRef,
                                   resumeAnimation(keysRef), TRUE)
       IN  /\ isAttackingRef' = FALSE
           /\ actionsRef' = played.actions
           /\ currentActionRef' = played.current
    /\ basic_timers' = basic_timers \ {Timer("clear", 0)}
    /\ UNCHANGED <<keysRef, playerPosition, mixerRef, cameraPosition, zombieVars,
                   glowingOrbRef, basic_loads, mounted>>

basic_orbTimer ==
    /\ Timer("orb", 0) \in basic_timers
    /\ glowingOrbRef' = orbPosition(zombieRef)
    /\ basic_timers' = basic_timers \ {Timer("orb", 0)}
    /\ UNCHANGED <<playerVars, zombieVars, basic_loads, mounted>>

basic_animate ==
    \E bob \in BobSteps :
        LET orb    == IF glowingOrbRef = Null THEN Null
                      ELSE [glowingOrbRef EXCEPT !.y = @ + bob]
            step   == frameStep(isAttackingRef, keysRef, playerPosition)
            name   == requestedAnimation(isAttackingRef, step.moved,
                                         step.currentMovement, currentActionRef)
            played == IF name = ""
                      THEN [actions |-> actionsRef, current |-> currentActionRef]
                      ELSE playAnimation(actionsRef, currentActionRef, name, TRUE)
        IN  /\ glowingOrbRef' = orb
            /\ playerPosition' = step.position
            /\ actionsRef' = played.actions
            /\ currentActionRef' = played.current
            /\ cameraPosition' = Lerp(cameraPosition,
                                      Add(step.position, cameraOffset), lerpAlpha)
            /\ UNCHANGED <<keysRef, isAttackingRef, mixerRef, zombieVars,
                           basic_timers, basic_loads, mounted>>

\* Time passes by one quantum.
basic_Tick ==
    /\ basic_timers # {}
    /\ \A t \in basic_timers : t.left >= Quantum
    /\ basic_timers' = {[t EXCEPT !.left = @ - Quantum] : t \in basic_timers}
    /\ UNCHANGED <<playerVars, zombieVars, glowingOrbRef, basic_loads, mounted>>

basic_loadAnimation(animationName, outcome) ==
    /\ animationName \in PlayerClips \cap pending
    /\ pending' = pending \ {animationName}
    /\ IF outcome = "error"
       THEN UNCHANGED <<baseAdded, animationClips, loadedAnimations, mixerRef,
                        actionsRef, currentActionRef>>
       ELSE LET isBaseModel == animationName = "idle"
                clips == IF outcome = "ok"
                         THEN animationClips \cup {animationName}
                         ELSE animationClips
                root  == IF isBaseModel \/ baseAdded THEN "base" ELSE "undefined"
            IN  /\ baseAdded' = IF isBaseModel THEN TRUE ELSE baseAdded
                /\ animationClips' = clips
                /\ loadedAnimations' = loadedAnimations + 1
                /\ IF allLoaded(loadedAnimations + 1)
                   THEN setupAnimations(root, clips)
                   ELSE UNCHANGED <<mixerRef, actionsRef, currentActionRef>>
    /\ UNCHANGED <<keysRef, playerPosition, isAttackingRef, cameraPosition,
                   zombieVars, glowingOrbRef, basic_timers, loadedCount,
                   zombieAnimations, skyBackground, mounted>>

basic_loadZombieIdle(outcome) ==
    /\ "zombieIdle" \in pending
    /\ pending' = pending \ {"zombieIdle"}
    /\ IF outcome = "error"
       THEN UNCHANGED <<zombieRef, zombieAnimations, loadedCount, zombieMixerRef,
                        zombieActionsRef>>
       ELSE LET clips == IF outcome = "ok"
                         THEN zombieAnimations \cup {"zombieIdle"}
                         ELSE zombieAnimations
            IN  /\ zombieAnimations' = clips
                /\ zombieRef' = zombieStart
                /\ loadedCount' = loadedCount + 1
                /\ setupZombieAnimations(loadedCount + 1, zombieStart, clips)
    /\ UNCHANGED <<playerVars, zombieStateRef, glowingOrbRef, basic_timers,
                   baseAdded, loadedAnimations, animationClips, skyBackground,
                   mounted>>

basic_loadZombieDeath(outcome) ==
    /\ "zombieDeath" \in pending
    /\ pending' = pending \ {"zombieDeath"}
    /\ IF outcome = "error"
       THEN UNCHANGED <<zombieAnimations, loadedCount, zombieMixerRef,
                        zombieActionsRef>>
       ELSE LET clips == IF outcome = "ok"
                         THEN zombieAnimations \cup {"zombieDeath"}
                         ELSE zombieAnimations
            IN  /\ zombieAnimations' = clips
                /\ loadedCount' = loadedCount + 1
                /\ setupZombieAnimations(loadedCount + 1, zombieRef, clips)
    /\ UNCHANGED <<playerVars, zombieRef, zombieStateRef, glowingOrbRef,
                   basic_timers, baseAdded, loadedAnimations, animationClips,
                   skyBackground, mounted>>

\* The callbacks of the loads of oaktrees.fbx and Tree.fbx.
basic_loadTrees(name) ==
    /\ name \in {"oakTrees", "pineTrees"} \cap pending
    /\ pending' = pending \ {name}
    /\ UNCHANGED <<playerVars, zombieVars, glowingOrbRef, basic_timers,
                   baseAdded, loadedAnimations, animationClips, loadedCount,
                   zombieAnimations, skyBackground, mounted>>

basic_loadSkybox(outcome) ==
    /\ outcome # "empty"
    /\ "skybox" \in pending
    /\ pending' = pending \ {"skybox"}
    /\ skyBackground' = IF outcome = "ok" THEN "envMap" ELSE "color"
    /\ UNCHANGED <<playerVars, zombieVars, glowingOrbRef, basic_timers,
                   baseAdded, loadedAnimations, animationClips, loadedCount,
                   zombieAnimations, mounted>>

basic_cleanup ==
    /\ mounted
    /\ mounted' = FALSE
    /\ actionsRef' = IF mixerRef # NoMixer THEN StopAllAction(actionsRef)
                     ELSE actionsRef
    /\ zombieActionsRef' = IF zombieMixerRef THEN StopAllAction(zombieActionsRef)
                           ELSE zombieActionsRef
    /\ UNCHANGED <<keysRef, playerPosition, isAttackingRef, currentActionRef,
                   mixerRef, cameraPosition, zombieRef, zombieStateRef,
                   zombieMixerRef, glowingOrbRef, basic_timers, basic_loads>>

basic_Next ==
    \/ \E code \in KeyCodes : basic_handleKeyDown(code)
    \/ \E code \in KeyCodes : basic_handleKeyUp(code)
    \/ \E button \in Buttons : basic_handleMouseClick(button)
    \/ basic_hitTimer
    \/ basic_clearTimer
    \/ basic_orbTimer
    \/ basic_animate
    \/ basic_Tick
    \/ \E name \in PlayerClips, o \in Outcomes : basic_loadAnimation(name, o)
    \/ \E o \in Outcomes : basic_loadZombieIdle(o)
    \/ \E o \in Outcomes : basic_loadZombieDeath(o)
    \/ \E name \in OtherLoads : basic_loadTrees(name)
    \/ \E o \in Outcomes : basic_loadSkybox(o)
    \/ basic_cleanup

----------------------------------------------------------------------------
(* Specifications *)

\* The session once the six player files have loaded (setupAnimations has
\* run on all six clips) and the player has walked to arenaCentre and let go
\* of the keys, the frames following; the other loads are still pending.
InitPlay ==
    /\ keysRef = {}
    /\ playerPosition = arenaCentre
    /\ isAttackingRef = FALSE
    /\ currentActionRef = "idle"
    /\ actionsRef = setupActions(PlayerClips, "idle")
    /\ mixerRef = "base"
    /\ zombieRef = Null
    /\ zombieStateRef = "alive"
    /\ zombieActionsRef = ClipActions({})
    /\ zombieMixerRef = FALSE
    /\ glowingOrbRef = Null
    /\ showPickupPrompt = FALSE
    /\ isLoading = TRUE
    /\ loadingProgress = progressOf(totalAnimations)
    /\ cameraPosition = Add(arenaCentre, cameraOffset)
    /\ timers = {}
    /\ pending = ZombieClips \cup OtherLoads
    /\ baseAdded = TRUE
    /\ loadedAnimations = totalAnimations
    /\ animationClips = PlayerClips
    /\ loadedAssets = totalAnimations
    /\ loadedCount = 0
    /\ zombieAnimations = {}
    /\ skyBackground = "none"
    /\ mounted = TRUE
    /\ faults = 0
    /\ stopwatch = [attack |-> -1, death |-> -1]
    /\ probe = Null

\* Combat: one key code for each direction, attacks, the zombie's two loads,
\* frames and time.
CombatKeys == {"KeyW", "ArrowDown", "KeyA", "ArrowRight"}

Next ==
    \/ \E code \in CombatKeys : handleKeyDown(code)
    \/ \E code \in CombatKeys : handleKeyUp(code)
    \/ \E button \in Buttons : handleMouseClick(button)
    \/ hitTimer
    \/ clearTimer
    \/ orbTimer
    \/ animate
    \/ Tick
    \/ \E o \in Outcomes : loadZombieIdle(o)
    \/ \E o \in Outcomes : loadZombieDeath(o)

Spec == InitPlay /\ [][Next]_vars

\* Player control: every key code, attacks, frames and time; the zombie's
\* files stay pending.
NextControl ==
    \/ \E code \in KeyCodes : handleKeyDown(code)
    \/ \E code \in KeyCodes : handleKeyUp(code)
    \/ \E button \in Buttons : handleMouseClick(button)
    \/ hitTimer
    \/ clearTimer
    \/ animate
    \/ Tick

SpecControl == InitPlay /\ [][NextControl]_vars

\* Player control with time passing and every due timer callback run: the
\* event loop runs a timer's callback once its delay has passed.
SpecControlFair ==
    /\ SpecControl
    /\ WF_vars(Tick)
    /\ WF_vars(hitTimer)
    /\ WF_vars(clearTimer)

\* The session once the six player files and the zombie's two have loaded
\* and the player has walked to position and let go of the keys.
InitFight(position) ==
    /\ keysRef = {}
    /\ playerPosition = position
    /\ isAttackingRef = FALSE
    /\ currentActionRef = "idle"
    /\ actionsRef = setupActions(PlayerClips, "idle")
    /\ mixerRef = "base"
    /\ zombieRef = zombieStart
    /\ zombieStateRef = "alive"
    /\ zombieActionsRef = setupActions(ZombieClips, "zombieIdle")
    /\ zombieMixerRef = TRUE
    /\ glowingOrbRef = Null
    /\ showPickupPrompt = FALSE
    /\ isLoading = TRUE
    /\ loadingProgress = progressOf(totalAnimations + 1)
    /\ cameraPosition = Add(position, cameraOffset)
    /\ timers = {}
    /\ pending = OtherLoads
    /\ baseAdded = TRUE
    /\ loadedAnimations = totalAnimations
    /\ animationClips = PlayerClips
    /\ loadedAssets = totalAnimations + 1
    /\ loadedCount = totalZombieAnimations
    /\ zombieAnimations = ZombieClips
    /\ skyBackground = "none"
    /\ mounted = TRUE
    /\ faults = 0
    /\ stopwatch = [attack |-> -1, death |-> -1]
    /\ probe = Null

\* The pickup: the player steps left and right across the edge of the orb's
\* range, attacks, and presses the interact key; the component may unmount
\* at any time, its timers and frames going on.
PickupKeys == {"ArrowLeft", "ArrowRight", "KeyE"}

InitPickup == InitFight(pickupCentre)

NextPickup ==
    \/ \E code \in PickupKeys : handleKeyDown(code)
    \/ \E code \in PickupKeys : handleKeyUp(code)
    \/ \E button \in Buttons : handleMouseClick(button)
    \/ hitTimer
    \/ clearTimer
    \/ orbTimer
    \/ animate
    \/ Tick
    \/ cleanup

SpecPickup == InitPickup /\ [][NextPickup]_vars

\* The loads: every load of the effect completes in any order and with any
\* outcome, at most MaxFaults of them going wrong, and the loading timer.
NextLoad ==
    \/ \E name \in PlayerClips, o \in Outcomes : loadAnimation(name, o)
    \/ \E o \in Outcomes : loadZombieIdle(o)
    \/ \E o \in Outcomes : loadZombieDeath(o)
    \/ \E o \in Outcomes : loadOakTrees(o)
    \/ \E o \in Outcomes : loadPineTrees(o)
    \/ \E o \in Outcomes : loadSkybox(o)
    \/ loadingTimer
    \/ Tick

SpecLoad == Init /\ [][NextLoad]_vars

\* The loads with every load's callback run in the end, time passing and
\* the loading timer's callback run once it is due.
SpecLoadFair ==
    /\ SpecLoad
    /\ WF_vars(\E name \in PlayerClips, o \in Outcomes : loadAnimation(name, o))
    /\ WF_vars(\E o \in Outcomes : loadZombieIdle(o))
    /\ WF_vars(\E o \in Outcomes : loadZombieDeath(o))
    /\ WF_vars(\E o \in Outcomes : loadOakTrees(o))
    /\ WF_vars(\E o \in Outcomes : loadPineTrees(o))
    /\ WF_vars(\E o \in Outcomes : loadSkybox(o))
    /\ WF_vars(loadingTimer)
    /\ WF_vars(Tick)

\* The start of the session: the six player files load in any order and
\* with any outcome while the player, standing at the origin with the camera
\* where it was constructed, already steers, attacks and is drawn.
StartKeys == {"KeyA", "KeyD"}

NextStart ==
    \/ \E name \in PlayerClips, o \in Outcomes : loadAnimation(name, o)
    \/ \E code \in StartKeys : handleKeyDown(code)
    \/ \E code \in StartKeys : handleKeyUp(code)
    \/ \E button \in Buttons : handleMouseClick(button)
    \/ hitTimer
    \/ clearTimer
    \/ animate
    \/ Tick

SpecStart == Init /\ [][NextStart]_vars

\* A session without the interact key: the player steps left and right
\* beside the enemy and attacks while the oak trees and the skybox load and
\* the loading timer runs; the component may unmount at any time.
SessionKeys == {"ArrowLeft", "ArrowRight"}

NextSession ==
    \/ \E code \in SessionKeys : handleKeyDown(code)
    \/ \E code \in SessionKeys : handleKeyUp(code)
    \/ \E button \in Buttons : handleMouseClick(button)
    \/ hitTimer
    \/ clearTimer
    \/ orbTimer
    \/ animate
    \/ Tick
    \/ \E o \in Outcomes : loadOakTrees(o)
    \/ \E o \in Outcomes : loadSkybox(o)
    \/ loadingTimer
    \/ cleanup

SpecSession == InitPickup /\ [][NextSession]_vars

\* The animation player: the six player files load in any order and with any
\* outcome, and playAnimation is called with any name and loop mode.
NextPlay ==
    \/ \E name \in PlayerClips, o \in Outcomes : loadAnimation(name, o)
    \/ \E name \in PlayerClips, loop \in BOOLEAN : callPlayAnimation(name, loop)

SpecPlay == Init /\ [][NextPlay]_vars

\* The hit check on every player position of ProbePoints, with no zombie, a
\* zombie at the origin or one at its place, alive or dead.
NextHit ==
    \E player \in ProbePoints, zombie \in {Null, origin, zombieStart},
       state \in {"alive", "dead"} : callCheckHit(player, zombie, state)

SpecHit == Init /\ [][NextHit]_vars

----------------------------------------------------------------------------
(* Properties *)

\* Whether the points a and b are no further apart than 3.0 world units.
AtMostThreeApart(a, b) ==
    LET dx == a.x - b.x
        dy == a.y - b.y
        dz == a.z - b.z
    IN  dx * dx + dy * dy + dz * dz <= 3000 * 3000

\* C1: for every player position and every enemy position, the hit check
\* returns true exactly when the enemy is alive and the two are at most 3.0
\* apart (the boundary included); for a dead enemy it returns false at every
\* distance.
C1_HitIffAliveWithinRange ==
    (probe # Null /\ probe.fn = "checkHit" /\ probe.zombie # Null) =>
        /\ probe.result = (probe.state = "alive"
                           /\ AtMostThreeApart(probe.player, probe.zombie))
        /\ (probe.state = "dead" => probe.result = FALSE)

\* A hit on a living enemy at distance exactly 3.0.
C1_Witness ==
    /\ probe # Null
    /\ probe.fn = "checkHit"
    /\ probe.zombie = origin
    /\ probe.player = [x |-> 1800, y |-> 0, z |-> 2400]
    /\ probe.state = "alive"
    /\ probe.result = TRUE

\* C2: the enemy starts alive, its state is always one of alive and dead, and
\* the only change it ever makes is from alive to dead: never back, whatever
\* attacks, timers and loads follow.
C2_EnemyStateMonotonic ==
    /\ zombieStateRef = "alive"
    /\ [](zombieStateRef \in {"alive", "dead"})
    /\ [][zombieStateRef' # zombieStateRef =>
             (zombieStateRef = "alive" /\ zombieStateRef' = "dead")]_vars

\* The enemy is dead, its death file has loaded since, the orb has been
\* created and a later attack is under way.
C2_Witness ==
    /\ zombieStateRef = "dead"
    /\ "zombieDeath" \notin pending
    /\ "zombieDeath" \notin DOMAIN zombieActionsRef
           \/ ~zombieActionsRef["zombieDeath"].active
    /\ glowingOrbRef # Null
    /\ isAttackingRef

\* C3: a mouse-button event that arrives while the player is attacking
\* changes nothing: no flag, no animation, no timer.  The attacking flag goes
\* up, and a hit timer or a clear timer is scheduled, only in a left click
\* that finds the flag down, and that click schedules both.
C3_TriggerIgnoredWhileAttacking ==
    [][/\ (isAttackingRef /\ \E button \in Buttons : handleMouseClick(button))
              => UNCHANGED vars
       /\ (\/ ~isAttackingRef /\ isAttackingRef'
           \/ Timer("hit", hitDelay) \in timers' \ timers
           \/ Timer("clear", clearDelay) \in timers' \ timers)
              => /\ ~isAttackingRef
                 /\ handleMouseClick(0)
                 /\ isAttackingRef'
                 /\ {t \in timers' : t.kind \in {"hit", "clear"}}
                        = {Timer("hit", hitDelay), Timer("clear", clearDelay)}]_vars

\* An attack is half a second old, its clear timer still pending, and the
\* window's mouse listener is in place to receive a further click.
C3_Witness ==
    /\ isAttackingRef
    /\ mounted
    /\ stopwatch.attack = 500
    /\ currentActionRef = "attack"
    /\ {t \in timers : t.kind = "clear"} = {Timer("clear", 500)}

\* C4: a frame that runs while the player is attacking leaves the current
\* animation and the player's position as they are, whatever keys are held.
C4_FrameFrozenWhileAttacking ==
    [][(isAttackingRef /\ animate) =>
           /\ currentActionRef' = currentActionRef
           /\ playerPosition' = playerPosition
           /\ actionsRef' = actionsRef]_vars

\* Mid-attack with two movement keys held, pressed after the attack began:
\* the attack animation is current and the player is where the attack began.
C4_Witness ==
    /\ isAttackingRef
    /\ stopwatch.attack = 600
    /\ keysRef = {"KeyW", "ArrowRight"}
    /\ currentActionRef = "attack"
    /\ playerPosition = arenaCentre

\* The animation named by the keys held, the first of Forward, Back, Left and
\* Right that has a key down; Idle when none has.  W, A, S, D and the arrow
\* keys of the same direction count alike.
FirstMatched(keys) ==
    CASE "KeyW" \in keys \/ "ArrowUp" \in keys -> "walkForward"
      [] "KeyS" \in keys \/ "ArrowDown" \in keys -> "walkBack"
      [] "KeyA" \in keys \/ "ArrowLeft" \in keys -> "strafeLeft"
      [] "KeyD" \in keys \/ "ArrowRight" \in keys -> "strafeRight"
      [] OTHER -> "idle"

\* C5: the clear timer fires 1.0 after the honoured trigger; it puts the
\* attacking flag down and makes current the resume animation of the keys
\* held at that instant (Forward before Back before Left before Right, Idle
\* when none is held).
C5_ClearResumesFromKeys ==
    [][clearTimer =>
           /\ stopwatch.attack = 1000
           /\ ~isAttackingRef'
           /\ currentActionRef' = FirstMatched(keysRef)]_vars

\* An attack has been cleared and none begun since; Forward and Right are
\* held and Walk Forward is current and playing.
C5_Witness ==
    /\ ~isAttackingRef
    /\ stopwatch.attack = 1000
    /\ timers = {}
    /\ keysRef = {"ArrowUp", "KeyD"}
    /\ currentActionRef = "walkForward"
    /\ actionsRef["walkForward"].active

\* C6: a frame that runs while the player is not attacking makes current the
\* animation of the first matched direction of the keys held (Forward before
\* Back before Left before Right), and Idle when none is held.
C6_FrameSelectsFirstMatched ==
    [][(~isAttackingRef /\ animate) =>
           currentActionRef' = FirstMatched(keysRef)]_vars

\* What the frame does make current: the last matched direction.
LastMatched(keys) ==
    CASE "KeyD" \in keys \/ "ArrowRight" \in keys -> "strafeRight"
      [] "KeyA" \in keys \/ "ArrowLeft" \in keys -> "strafeLeft"
      [] "KeyS" \in keys \/ "ArrowDown" \in keys -> "walkBack"
      [] "KeyW" \in keys \/ "ArrowUp" \in keys -> "walkForward"
      [] OTHER -> "idle"

\* C6, as the code has it: the frame makes current the animation of the last
\* matched direction (Right before Left before Back before Forward).
C6_FrameSelectsLastMatched ==
    [][(~isAttackingRef /\ animate) =>
           currentActionRef' = LastMatched(keysRef)]_vars

\* Forward and Right are held, no attack is under way and a frame has made
\* Strafe Right current.
C6_Witness ==
    /\ ~isAttackingRef
    /\ keysRef = {"KeyW", "KeyD"}
    /\ currentActionRef = "strafeRight"
    /\ playerPosition = [arenaCentre EXCEPT !.x = @ + moveSpeed, !.z = @ - moveSpeed]

\* C7: one animation is current at any time: the current name is one of the
\* six states and an action of the table is playing exactly when it is the
\* current one.  A call of playAnimation with the current name changes
\* neither the table nor the current name and makes no call on any action (no
\* fade, no reset).
C7_OneCurrentReplayNoOp ==
    /\ [](/\ currentActionRef \in PlayerClips
          /\ \A c \in DOMAIN actionsRef :
                 actionsRef[c].active <=> c = currentActionRef)
    /\ [][(\E loop \in BOOLEAN : callPlayAnimation(currentActionRef, loop)) =>
              /\ actionsRef' = actionsRef
              /\ currentActionRef' = currentActionRef
              /\ probe'.calls = << >>]_vars

\* playAnimation("attack") has been called single-shot while Attack was
\* current and playing.
C7_Witness ==
    /\ probe # Null
    /\ probe.fn = "playAnimation"
    /\ probe.animationName = "attack"
    /\ probe.loop = FALSE
    /\ probe.found = "attack"
    /\ currentActionRef = "attack"
    /\ actionsRef["attack"].active

\* C8: a call of playAnimation with a name that has no action in the table
\* changes neither the table nor the current name and makes no call on any
\* action.
C8_MissingClipNoOp ==
    [][\A name \in PlayerClips \ DOMAIN actionsRef :
           (\E loop \in BOOLEAN : callPlayAnimation(name, loop)) =>
               /\ actionsRef' = actionsRef
               /\ currentActionRef' = currentActionRef
               /\ probe'.calls = << >>]_vars

\* The attack file loaded without a clip; after the setup Walk Back was made
\* current, and then playAnimation("attack") was called.
C8_Witness ==
    /\ probe # Null
    /\ probe.fn = "playAnimation"
    /\ probe.animationName = "attack"
    /\ probe.found = "walkBack"
    /\ "attack" \notin DOMAIN actionsRef
    /\ currentActionRef = "walkBack"
    /\ actionsRef["walkBack"].active

\* C9: the hit check runs 0.3 after the honoured trigger.  It makes the enemy
\* dead exactly when the enemy exists, is alive and is at most 3.0 from the
\* player at that instant; otherwise the enemy's state stays as it is.  The
\* enemy's state changes in no other step.
C9_HitCheckAtThreeTenths ==
    [][/\ hitTimer =>
              /\ stopwatch.attack = 300
              /\ zombieStateRef' =
                     IF /\ zombieRef # Null
                        /\ zombieStateRef = "alive"
                        /\ AtMostThreeApart(playerPosition, zombieRef)
                     THEN "dead"
                     ELSE zombieStateRef
       /\ zombieStateRef' # zombieStateRef => hitTimer]_vars

\* The hit check has just killed the enemy from distance exactly 3.0, 0.3
\* after the trigger.
C9_Witness ==
    /\ zombieStateRef = "dead"
    /\ stopwatch.death = 0
    /\ stopwatch.attack = 300
    /\ isAttackingRef
    /\ playerPosition = arenaCentre
    /\ \A t \in timers : t.kind # "hit"

\* C10: when the enemy dies at time T the pickup does not exist; it is
\* created when 2.0 have passed since T and not before, at the enemy's
\* position raised by 1.0; until then its creation is due at T + 2.0.
C10_PickupTwoAfterDeath ==
    /\ [](/\ zombieStateRef = "alive" => glowingOrbRef = Null
          /\ stopwatch.death < 2000 => glowingOrbRef = Null
          /\ \A t \in timers :
                 t.kind = "orb" => /\ zombieStateRef = "dead"
                                   /\ stopwatch.death + t.left = 2000)
    /\ [][/\ (zombieStateRef = "alive" /\ zombieStateRef' = "dead") =>
                 /\ stopwatch'.death = 0
                 /\ \E t \in timers' : t.kind = "orb"
          /\ (glowingOrbRef = Null /\ glowingOrbRef' # Null) =>
                 /\ stopwatch.death = 2000
                 /\ glowingOrbRef' = [x |-> zombieRef.x,
                                      y |-> zombieRef.y + 1000,
                                      z |-> zombieRef.z]]_vars

\* The pickup has just been created, 2.0 after the death, 1.0 above the
\* enemy's place.
C10_Witness ==
    /\ zombieStateRef = "dead"
    /\ stopwatch.death = 2000
    /\ glowingOrbRef = [x |-> -5000, y |-> 1000, z |-> -5000]
    /\ \A t \in timers : t.kind # "orb"

\* Whether the pickup exists and is no further than 2.5 from the point p.
ItemWithinReach(p, item) ==
    /\ item # Null
    /\ LET dx == p.x - item.x
           dy == p.y - item.y
           dz == p.z - item.z
       IN  dx * dx + dy * dy + dz * dz <= 2500 * 2500

PickupPending == \E t \in timers : t.kind = "orb"

\* C11: the pickup exists only if the enemy is dead and the 2.0 since its
\* death have passed; it is created only by the one creation the death
\* schedules, which is scheduled only in the step that kills the enemy; and
\* once the enemy is dead with no creation pending and no pickup (it was
\* collected), no pickup exists and none is pending ever after.
C11_PickupOnlyOnceAfterDeath ==
    /\ [](/\ glowingOrbRef # Null =>
                 /\ zombieStateRef = "dead"
                 /\ stopwatch.death = 2000
                 /\ ~PickupPending
          /\ Cardinality({t \in timers : t.kind = "orb"}) <= 1)
    /\ [][/\ (glowingOrbRef = Null /\ glowingOrbRef' # Null) =>
                 (Timer("orb", 0) \in timers /\ ~PickupPending')
          /\ (~PickupPending /\ PickupPending') =>
                 (zombieStateRef = "alive" /\ zombieStateRef' = "dead")
          /\ (zombieStateRef = "dead" /\ ~PickupPending /\ glowingOrbRef = Null) =>
                 (glowingOrbRef' = Null /\ ~PickupPending')]_vars

\* The pickup was collected, and a later attack is under way: the enemy is
\* dead, no pickup exists and none is pending.
C11_Witness ==
    /\ zombieStateRef = "dead"
    /\ stopwatch.death = 2000
    /\ ~PickupPending
    /\ glowingOrbRef = Null
    /\ isAttackingRef
    /\ "KeyE" \notin keysRef

\* C12: in every state the prompt is visible exactly when the pickup exists
\* and the player is within 2.5 of it.
C12_PromptIffWithinReach ==
    mounted => (showPickupPrompt <=> ItemWithinReach(playerPosition, glowingOrbRef))

\* C12, as the code has it: while the component is mounted, the prompt is
\* visible only when the pickup exists and the player is within 2.5 of it;
\* every frame makes it visible exactly when that is so; and the pickup comes
\* within reach with no prompt only by being created there, the prompt
\* following at the next frame.
C12_PromptFollowsAtFrame ==
    /\ []((mounted /\ showPickupPrompt) =>
               ItemWithinReach(playerPosition, glowingOrbRef))
    /\ [][/\ (mounted /\ animate) =>
                 (showPickupPrompt' <=>
                      ItemWithinReach(playerPosition', glowingOrbRef'))
          /\ (/\ mounted'
              /\ showPickupPrompt <=>
                     ItemWithinReach(playerPosition, glowingOrbRef)
              /\ ~(showPickupPrompt' <=>
                       ItemWithinReach(playerPosition', glowingOrbRef')))
                 => orbTimer]_vars

\* The pickup exists, the player stands within 2.5 of it and a frame has
\* made the prompt visible.
C12_Witness ==
    /\ mounted
    /\ showPickupPrompt
    /\ glowingOrbRef # Null
    /\ ItemWithinReach(playerPosition, glowingOrbRef)
    /\ playerPosition = pickupCentre

\* C13: a key-down of the interact key removes the pickup and clears the
\* prompt when the pickup exists and the player is within 2.5 of it at that
\* instant; otherwise it changes nothing but the set of keys held.  The
\* pickup is removed in no other step.
C13_InteractOnlyWithinReach ==
    [][/\ handleKeyDown("KeyE") =>
              IF ItemWithinReach(playerPosition, glowingOrbRef)
              THEN glowingOrbRef' = Null /\ ~showPickupPrompt'
              ELSE UNCHANGED <<playerPosition, isAttackingRef, currentActionRef,
                               actionsRef, mixerRef, cameraPosition, zombieVars,
                               glowingOrbRef, uiVars, timers, loadVars, mounted>>
       /\ (glowingOrbRef # Null /\ glowingOrbRef' = Null) =>
              /\ handleKeyDown("KeyE")
              /\ ItemWithinReach(playerPosition, glowingOrbRef)]_vars

\* The interact key is down, the pickup it collected is gone and the prompt
\* is cleared.
C13_Witness ==
    /\ "KeyE" \in keysRef
    /\ zombieStateRef = "dead"
    /\ stopwatch.death = 2000
    /\ ~PickupPending
    /\ glowingOrbRef = Null
    /\ ~showPickupPrompt

\* The pickup exists out of the player's reach and the interact key has been
\* pressed.
C13_WitnessOutOfReach ==
    /\ "KeyE" \in keysRef
    /\ glowingOrbRef # Null
    /\ ~ItemWithinReach(playerPosition, glowingOrbRef)
    /\ playerPosition = [pickupCentre EXCEPT !.x = @ + moveSpeed]

\* C14: with one load failed, once the six player loads have ended every
\* player clip that did load has its action in the table, and once the two
\* enemy loads have ended every enemy clip that did load has its action.
C14_LoadedClipsSetUp ==
    /\ PlayerClips \cap pending = {} => animationClips \subseteq DOMAIN actionsRef
    /\ ZombieClips \cap pending = {} =>
           zombieAnimations \subseteq DOMAIN zombieActionsRef

\* The attack file has failed to load, the other five player clips have
\* loaded and the table of actions is empty.
C14_Witness ==
    /\ PlayerClips \cap pending = {}
    /\ animationClips = PlayerClips \ {"attack"}
    /\ DOMAIN actionsRef = {}
    /\ mixerRef = NoMixer

\* C15: the player setup runs at one step only, the one in which the count of
\* completed player loads goes from five to six, whatever the order; the base
\* model has been added by then and is the mixer's root, and the table gets
\* the clips loaded.  The enemy setup runs at one step only, the one in which
\* the count of completed enemy loads reaches two, in either order, with the
\* enemy model present.  Each setup has run exactly when its count is full.
C15_SetupGatedByCount ==
    /\ [](/\ mixerRef # NoMixer <=> loadedAnimations = 6
          /\ zombieMixerRef <=> loadedCount = 2
          /\ loadedAnimations <= Cardinality(PlayerClips \ pending)
          /\ loadedCount <= Cardinality(ZombieClips \ pending)
          /\ faults = 0 =>
                 /\ loadedAnimations = Cardinality(PlayerClips \ pending)
                 /\ loadedCount = Cardinality(ZombieClips \ pending))
    /\ [][/\ (mixerRef' # mixerRef \/ actionsRef' # actionsRef) =>
                 /\ mixerRef = NoMixer
                 /\ mixerRef' = "base"
                 /\ baseAdded'
                 /\ loadedAnimations = 5
                 /\ loadedAnimations' = 6
                 /\ DOMAIN actionsRef' = animationClips'
          /\ (zombieMixerRef' # zombieMixerRef
                  \/ zombieActionsRef' # zombieActionsRef) =>
                 /\ ~zombieMixerRef
                 /\ zombieMixerRef'
                 /\ zombieRef' # Null
                 /\ loadedCount = 1
                 /\ loadedCount' = 2
                 /\ DOMAIN zombieActionsRef' = zombieAnimations']_vars

\* Every load has completed without a fault: both setups have run, each
\* table has its clips, and the overlay is gone.
C15_Witness ==
    /\ pending = {}
    /\ faults = 0
    /\ mixerRef = "base"
    /\ DOMAIN actionsRef = PlayerClips
    /\ zombieMixerRef
    /\ DOMAIN zombieActionsRef = ZombieClips
    /\ ~isLoading

\* C16: once the component has unmounted, the hit-check, attack-clear and
\* pickup-creation timers that fire change neither the attacking flag, nor
\* the current animation, nor the enemy's state, nor the pickup.
C16_TimersInertAfterTeardown ==
    [][(~mounted /\ (hitTimer \/ clearTimer \/ orbTimer)) =>
           UNCHANGED <<isAttackingRef, currentActionRef, actionsRef,
                       zombieStateRef, zombieActionsRef, glowingOrbRef>>]_vars

\* The component has unmounted, and since then a timer has killed the enemy
\* and another has created the pickup.
C16_Witness ==
    /\ ~mounted
    /\ zombieStateRef = "dead"
    /\ glowingOrbRef # Null
    /\ ~isAttackingRef
    /\ \A c \in DOMAIN zombieActionsRef : c # "zombieDeath" => ~zombieActionsRef[c].active
    /\ zombieActionsRef["zombieDeath"].active

HitTimers == {t \in timers : t.kind = "hit"}

\* C17: a trigger that is honoured sets the attacking flag and makes Attack
\* current, playing single-shot, with the hit check due in 0.3 and the clear
\* in 1.0.  Until 0.3 of the attack have passed exactly one hit check is
\* pending, after them none is, and none is outside an attack: each honoured
\* trigger has one hit check.  The check runs at 0.3, the flag still up and
\* the clear still 0.7 away.
C17_OneHitCheckBeforeClear ==
    /\ [](/\ (isAttackingRef /\ stopwatch.attack < 300) =>
                 HitTimers = {Timer("hit", 300 - stopwatch.attack)}
          /\ (isAttackingRef /\ stopwatch.attack = 300) =>
                 HitTimers \subseteq {Timer("hit", 0)}
          /\ (~isAttackingRef \/ stopwatch.attack > 300) => HitTimers = {})
    /\ [][/\ (~isAttackingRef /\ isAttackingRef') =>
                 /\ currentActionRef' = "attack"
                 /\ actionsRef'["attack"].active
                 /\ actionsRef'["attack"].loop = "once"
                 /\ Timer("hit", 300) \in timers'
                 /\ Timer("clear", 1000) \in timers'
          /\ hitTimer =>
                 /\ isAttackingRef
                 /\ isAttackingRef'
                 /\ stopwatch.attack = 300
                 /\ Timer("clear", 700) \in timers'
                 /\ \A t \in timers' : t.kind # "hit"]_vars

\* The hit check of an attack has run and missed a living enemy out of
\* range; the attack goes on single-shot, its clear 0.7 away.
C17_Witness ==
    /\ isAttackingRef
    /\ stopwatch.attack = 300
    /\ HitTimers = {}
    /\ Timer("clear", 700) \in timers
    /\ actionsRef["attack"].loop = "once"
    /\ zombieRef # Null
    /\ zombieStateRef = "alive"
    /\ ~AtMostThreeApart(playerPosition, zombieRef)

\* C18: the attacking flag goes up only in a left click that finds it down,
\* and comes down only in the clear timer's callback, 1.0 after that click;
\* while it is up that callback is pending; and, time passing and due timers
\* firing, whenever the flag is up it is down again later.
C18_AttackingWindowCloses ==
    /\ [](isAttackingRef =>
              /\ stopwatch.attack \in 0..1000
              /\ Timer("clear", 1000 - stopwatch.attack) \in timers)
    /\ [][/\ (~isAttackingRef /\ isAttackingRef') => handleMouseClick(0)
          /\ (isAttackingRef /\ ~isAttackingRef') =>
                 (clearTimer /\ stopwatch.attack = 1000)]_vars
    /\ (isAttackingRef ~> ~isAttackingRef)

\* An attack has run its full window and been cleared with no key held: the
\* flag is down, Idle is current and no timer is pending.
C18_Witness ==
    /\ ~isAttackingRef
    /\ stopwatch.attack = 1000
    /\ timers = {}
    /\ keysRef = {}
    /\ currentActionRef = "idle"

\* The player's displacement in one frame with the keys held: each direction
\* with a key down adds its own step of 0.1.
StepOf(keys, codes, amount) == IF keys \cap codes # {} THEN amount ELSE 0

\* C19: a frame that runs while the player is not attacking moves the player
\* by the sum of the steps of the directions held (Forward z - 0.1, Back
\* z + 0.1, Left x - 0.1, Right x + 0.1), unnormalised; with any direction
\* held, opposite ones included, a movement animation and not Idle is
\* current after it; with none held the player stays and Idle is current.
C19_StepsSummed ==
    [][(~isAttackingRef /\ animate) =>
           /\ playerPosition'.x = playerPosition.x
                  + StepOf(keysRef, {"KeyD", "ArrowRight"}, 100)
                  - StepOf(keysRef, {"KeyA", "ArrowLeft"}, 100)
           /\ playerPosition'.z = playerPosition.z
                  + StepOf(keysRef, {"KeyS", "ArrowDown"}, 100)
                  - StepOf(keysRef, {"KeyW", "ArrowUp"}, 100)
           /\ playerPosition'.y = playerPosition.y
           /\ IF keysRef \ {"KeyE"} # {}
              THEN currentActionRef' \in {"walkForward", "walkBack",
                                          "strafeLeft", "strafeRight"}
              ELSE currentActionRef' = "idle"]_vars

\* Before any attack, Forward and Left are held, Strafe Left is current and
\* the player stands one step forward and one step left of where it started.
C19_Witness ==
    /\ stopwatch.attack = -1
    /\ keysRef = {"ArrowUp", "KeyA"}
    /\ currentActionRef = "strafeLeft"
    /\ playerPosition = [arenaCentre EXCEPT !.x = @ - 100, !.z = @ - 100]

\* Before any attack, Forward and Back are held, the player stands where it
\* started and Walk Back is current.
C19_WitnessOpposite ==
    /\ stopwatch.attack = -1
    /\ keysRef = {"KeyW", "ArrowDown"}
    /\ currentActionRef = "walkBack"
    /\ playerPosition = arenaCentre

ZombiePlaying(name) ==
    name \in DOMAIN zombieActionsRef /\ zombieActionsRef[name].active

\* C20: in whatever order the enemy's two files load relative to the kill,
\* the idle track of a dead enemy is not playing, and once the enemy is dead
\* and both of its clips have loaded the death track is playing single-shot
\* with its final pose clamped.
C20_DeadPlaysDeathNeverIdle ==
    zombieStateRef = "dead" =>
        /\ ~ZombiePlaying("zombieIdle")
        /\ zombieAnimations = ZombieClips =>
               /\ ZombiePlaying("zombieDeath")
               /\ zombieActionsRef["zombieDeath"].loop = "once"
               /\ zombieActionsRef["zombieDeath"].clamp

\* The enemy was killed between the loads of its two files: it is dead, its
\* idle track is playing on repeat and its death track is not.
C20_Witness ==
    /\ zombieStateRef = "dead"
    /\ zombieAnimations = ZombieClips
    /\ ZombiePlaying("zombieIdle")
    /\ zombieActionsRef["zombieIdle"].loop = "repeat"
    /\ ~ZombiePlaying("zombieDeath")

C22_PositionHeldUntilHitCheck ==
    /\ [](HitTimers # {} => isAttackingRef)
    /\ [][/\ (~isAttackingRef /\ isAttackingRef') =>
                 /\ playerPosition' = playerPosition
                 /\ HitTimers' = {Timer("hit", hitDelay)}
          /\ HitTimers # {} => playerPosition' = playerPosition
          /\ hitTimer => playerPosition' = playerPosition]_vars

\* The player walked one step right and one step back, then attacked; two
\* other keys went down during the attack and frames ran: the hit check is
\* still due and the player stands where the trigger found it.
C22_Witness ==
    /\ isAttackingRef
    /\ stopwatch.attack = 300
    /\ HitTimers = {Timer("hit", 0)}
    /\ keysRef = {"ArrowUp", "KeyA"}
    /\ currentActionRef = "attack"
    /\ playerPosition = [arenaCentre EXCEPT !.x = @ + 100, !.z = @ + 100]

ClearTimers == {t \in timers : t.kind = "clear"}

\* C23: at most one hit check and at most one clear are pending, and only
\* during an attack; the pending clear is the one of the attack under way,
\* due 1.0 after its trigger, so the clear that takes the flag down is never
\* one left over from an earlier attack; and a hit check fires only with the
\* flag up.
C23_AttackWindowsDisjoint ==
    /\ [](/\ Cardinality(HitTimers) <= 1
          /\ Cardinality(ClearTimers) <= 1
          /\ (HitTimers # {} \/ ClearTimers # {}) => isAttackingRef
          /\ ClearTimers \subseteq {Timer("clear", clearDelay - stopwatch.attack)})
    /\ [][/\ hitTimer => isAttackingRef
          /\ clearTimer => (stopwatch.attack = clearDelay /\ ClearTimers' = {})]_vars

\* A second attack is under way: the first one killed the enemy, whose
\* pickup has since appeared.  One hit check and one clear are pending, both
\* of the second attack.
C23_Witness ==
    /\ isAttackingRef
    /\ stopwatch.attack = 200
    /\ zombieStateRef = "dead"
    /\ stopwatch.death = orbDelay
    /\ glowingOrbRef # Null
    /\ HitTimers = {Timer("hit", 100)}
    /\ ClearTimers = {Timer("clear", 800)}

\* setupAnimations has run on all six clips.
SetupComplete == mixerRef # NoMixer /\ DOMAIN actionsRef = PlayerClips

\* C24: once the player's animations have been set up with all six clips,
\* the player is attacking exactly when Attack is the current animation,
\* whenever the triggers came relative to the loads.
C24_AttackingIffAttackCurrent ==
    SetupComplete => (isAttackingRef <=> currentActionRef = "attack")

\* A trigger came before the last player file loaded: 0.6 into the attack
\* the six clips are set up, the flag is up and Idle is current and playing.
C24_Witness ==
    /\ SetupComplete
    /\ isAttackingRef
    /\ stopwatch.attack = 600
    /\ currentActionRef = "idle"
    /\ actionsRef["idle"].active
    /\ ~actionsRef["attack"].active

LoadingTimers == {t \in timers : t.kind = "loading"}

\* C25: the loading counter stays within 0..9 and the progress within
\* 0..100, the progress being the counter's share of 9; the dismissal of the
\* overlay is scheduled, and the overlay dismissed, only with all 9 counted
\* loads reported; no step lowers the counter or the progress, and no step
\* shows the overlay again once it is dismissed.
C25_ProgressBoundedOverlayOnce ==
    /\ [](/\ loadedAssets \in 0..totalAssets
          /\ loadingProgress \in 0..100
          /\ loadingProgress = progressOf(loadedAssets)
          /\ (~isLoading \/ LoadingTimers # {}) => loadedAssets = totalAssets
          /\ Cardinality(LoadingTimers) <= 1)
    /\ [][/\ loadedAssets' >= loadedAssets
          /\ loadingProgress' >= loadingProgress
          /\ ~isLoading => ~isLoading']_vars

\* Every load has reported, the skybox with an error (the fallback colour is
\* the background): the counter is 9, the progress 100 and the overlay has
\* been dismissed.
C25_Witness ==
    /\ pending = {}
    /\ skyBackground = "color"
    /\ loadedAssets = totalAssets
    /\ loadingProgress = 100
    /\ ~isLoading
    /\ timers = {}

\* C26: every load completing in the end, with success or with an error,
\* all nine counted loads are counted in the end and the overlay is
\* dismissed.
C26_OverlayEventuallyDismissed ==
    <>(pending = {} /\ loadedAssets = totalAssets /\ ~isLoading)

\* Every load has completed, the oak trees' with an error: eight loads are
\* counted, no timer is pending and the overlay is still shown.
C26_Witness ==
    /\ pending = {}
    /\ faults = 1
    /\ skyBackground = "envMap"
    /\ animationClips = PlayerClips
    /\ zombieAnimations = ZombieClips
    /\ loadedAssets = totalAssets - 1
    /\ timers = {}
    /\ isLoading

\* C27: while the loading overlay is shown no step (key or mouse input,
\* frame or timer) changes the player's position, the attacking flag or the
\* enemy's state.
C27_FrozenWhileLoading ==
    [][isLoading => UNCHANGED <<playerPosition, isAttackingRef,
                                zombieStateRef>>]_vars

\* The overlay is still shown, the skybox and the trees not yet loaded: the
\* player has walked a step forward and killed the enemy, and is attacking
\* again.
C27_Witness ==
    /\ isLoading
    /\ OtherLoads \subseteq pending
    /\ playerPosition = [arenaCentre EXCEPT !.z = @ - 100]
    /\ zombieStateRef = "dead"
    /\ stopwatch.death > 0
    /\ isAttackingRef
    /\ stopwatch.attack = 100

\* C28: once the cleanup has run, a frame changes neither the player's
\* position, nor the current animation or its tracks, nor the camera, nor the
\* prompt: the frame loop has stopped.
C28_NoFrameAfterTeardown ==
    [][(~mounted /\ animate) =>
           UNCHANGED <<playerPosition, currentActionRef, actionsRef,
                       cameraPosition, showPickupPrompt>>]_vars

\* The component unmounted with Left held and no attack ever made; the
\* cleanup stopped every track.  A frame since has moved the player a step
\* left with its camera and started Strafe Left, which is playing.
C28_Witness ==
    /\ ~mounted
    /\ stopwatch.attack = -1
    /\ keysRef = {"ArrowLeft"}
    /\ playerPosition = [pickupCentre EXCEPT !.x = @ - 100]
    /\ cameraPosition = Add(playerPosition, cameraOffset)
    /\ currentActionRef = "strafeLeft"
    /\ actionsRef["strafeLeft"].active

\* C29: the interact key pressed with the item within reach collects it,
\* whether or not the player is attacking; and the step in which the item
\* goes is that key press, which clears the prompt and leaves the attacking
\* flag, the current animation and its tracks, the player's position, the
\* enemy and every pending timer as they were.
C29_PickupLeavesCombatAlone ==
    [][/\ (handleKeyDown("KeyE") /\ ItemWithinReach(playerPosition, glowingOrbRef))
            => glowingOrbRef' = Null
       /\ (glowingOrbRef # Null /\ glowingOrbRef' = Null) =>
              /\ "KeyE" \in keysRef'
              /\ ~showPickupPrompt'
              /\ UNCHANGED <<isAttackingRef, currentActionRef, actionsRef,
                             playerPosition, zombieVars, timers>>]_vars

\* The item has been collected with an attack under way beside it: the
\* interact key is down, the item and the prompt are gone, Attack is current
\* and the attack's clear is still pending.
C29_Witness ==
    /\ glowingOrbRef = Null
    /\ stopwatch.death = orbDelay
    /\ keysRef = {"KeyE"}
    /\ ~showPickupPrompt
    /\ isAttackingRef
    /\ stopwatch.attack = 400
    /\ currentActionRef = "attack"
    /\ ClearTimers = {Timer("clear", 600)}
    /\ ItemWithinReach(playerPosition, orbPosition(zombieRef))

\* C30: with no interact input, every step of the component with pickup and
\* loading overlay is, on the player's position, the attacking flag, the
\* current animation, the enemy's state, the item and everything else the
\* two components share, the step GameScene.tsx makes on the same event, or
\* changes none of it; and whenever GameScene.tsx can take a timer callback,
\* a click, a key event or a frame, so can the other, time passing for it
\* once its loading timer's callback, if due, has run.
C30_SameStatesWithoutInteract ==
    /\ [][basic_Next]_basic_vars
    /\ [](/\ Timer("hit", 0) \in basic_timers => ENABLED hitTimer
          /\ Timer("clear", 0) \in basic_timers => ENABLED clearTimer
          /\ Timer("orb", 0) \in basic_timers => ENABLED orbTimer
          /\ mounted => /\ \A button \in Buttons : ENABLED handleMouseClick(button)
                        /\ \A code \in SessionKeys : ENABLED handleKeyUp(code)
                        /\ \A code \in SessionKeys :
                               Cardinality(keysRef \cup {code}) <= MaxHeld
                                   => ENABLED handleKeyDown(code)
          /\ frameStep(isAttackingRef, keysRef, playerPosition).position \in Arena
                 => ENABLED animate
          /\ (basic_timers # {} /\ \A t \in basic_timers : t.left >= Quantum)
                 => (ENABLED Tick \/ ENABLED loadingTimer))

\* The trees and the skybox have loaded and the overlay has been dismissed;
\* the player stepped left, killed the enemy and attacks again beside the
\* item, whose prompt a frame has shown.
C30_Witness ==
    /\ ~isLoading
    /\ loadedAssets = totalAssets
    /\ skyBackground = "envMap"
    /\ playerPosition = [pickupCentre EXCEPT !.x = @ - 100]
    /\ zombieStateRef = "dead"
    /\ glowingOrbRef # Null
    /\ showPickupPrompt
    /\ isAttackingRef
    /\ stopwatch.attack = 500
    /\ currentActionRef = "attack"

====
